---- MODULE Spec2Model ----
(***************************************************************************)
(* Shape-level model of models/senet.py: the construction of a SENet (the  *)
(* layer lists built by _make_layer, the classifier, the recurrent and     *)
(* attention layers), reset_classifier, and the forward pass as a sequence *)
(* of stages over tensor shapes.  A tensor is represented by its shape, a  *)
(* sequence of dimensions; every tensor operation either yields a shape or *)
(* raises the error the tensor framework raises for incompatible shapes.   *)
(* Drop rates are percentages (20 is 0.2).                                 *)
(***************************************************************************)
EXTENDS Integers, Sequences, FiniteSets, TLC

(* ------------------------------ bounds -------------------------------- *)
MaxBatch == 2
MaxBlocks == 1
MaxClasses == 1
MaxLength == 6

(* -------------------------- program constants ------------------------- *)
GruInputSize == 400
GruHiddenSize == 128
AttentionStepDim == 2048
LastLinearIn == 256
LastLinearOut == 9
HighwayNumber == 2
DefaultDropRate == 20
DefaultNumClasses == 9
DefaultInplanes == 64
SmokeLength == 2560 * 6
FittingLength == GruInputSize * 2 * 2 * 2 * 2 * 2

None == [kind |-> "None"]

(* --------------------------- tensor results --------------------------- *)
\* the value of an expression of the forward pass: a shape, or a raised error
Ok(shape, mods) == [err |-> "none", shape |-> shape, mods |-> mods]
Fail(e, mods) == [err |-> e, shape |-> <<>>, mods |-> mods]

RECURSIVE Numel(_)
Numel(shape) == IF shape = <<>> THEN 1 ELSE Head(shape) * Numel(Tail(shape))

Max2(a, b) == IF a >= b THEN a ELSE b

\* the shape s padded on the left with ones to n dimensions
PadLeft(s, n) == [i \in 1..n |-> IF i <= n - Len(s) THEN 1 ELSE s[i - (n - Len(s))]]

\* broadcasting of an elementwise operation (+, *) on two tensors
Broadcastable(s, t) ==
    LET n == Max2(Len(s), Len(t))
        a == PadLeft(s, n)
        b == PadLeft(t, n)
    IN \A i \in 1..n : a[i] = b[i] \/ a[i] = 1 \/ b[i] = 1

Broadcast(s, t) ==
    LET n == Max2(Len(s), Len(t))
        a == PadLeft(s, n)
        b == PadLeft(t, n)
    IN [i \in 1..n |-> Max2(a[i], b[i])]

(* -------------------------- framework modules ------------------------- *)
Conv1d(in_channels, out_channels, kernel_size, stride, padding, groups) ==
    [kind |-> "Conv1d", in_channels |-> in_channels, out_channels |-> out_channels,
     kernel_size |-> kernel_size, stride |-> stride, padding |-> padding,
     groups |-> groups]

BatchNorm1d(num_features) == [kind |-> "BatchNorm1d", num_features |-> num_features]

ReLU == [kind |-> "ReLU"]

MaxPool1d(kernel_size, stride) ==
    [kind |-> "MaxPool1d", kernel_size |-> kernel_size, stride |-> stride]

Linear(in_features, out_features) ==
    [kind |-> "Linear", in_features |-> in_features, out_features |-> out_features]

GRU(input_size, hidden_size) ==
    [kind |-> "GRU", input_size |-> input_size, hidden_size |-> hidden_size]

\* nn.Conv1d rejects channel counts that the groups do not divide
Conv1dCtorOk(c) == c.in_channels % c.groups = 0 /\ c.out_channels % c.groups = 0

Conv1d_forward(c, shape) ==
    IF Len(shape) # 3 THEN Fail("RuntimeError", {})
    ELSE IF shape[2] # c.in_channels THEN Fail("RuntimeError", {})
    ELSE IF shape[3] + 2 * c.padding < c.kernel_size THEN Fail("RuntimeError", {})
    ELSE Ok(<<shape[1], c.out_channels,
              ((shape[3] + 2 * c.padding - c.kernel_size) \div c.stride) + 1>>, {})

\* a module is in training mode unless eval() is called, which this file never
\* does: batch statistics need more than one value per channel
BatchNorm1d_forward(m, shape) ==
    IF Len(shape) # 3 \/ shape[2] # m.num_features THEN Fail("RuntimeError", {})
    ELSE IF shape[1] * shape[3] = 1 THEN Fail("ValueError", {})
    ELSE Ok(shape, {})

\* MaxPool1d with ceil_mode=True and no padding
MaxPool1d_forward(m, shape) ==
    IF Len(shape) # 3 THEN Fail("RuntimeError", {})
    ELSE LET L == shape[3]
             o == ((L - m.kernel_size + (m.stride - 1)) \div m.stride) + 1
             out == IF (o - 1) * m.stride >= L THEN o - 1 ELSE o
         IN IF out <= 0 THEN Fail("RuntimeError", {})
            ELSE Ok(<<shape[1], shape[2], out>>, {})

Linear_forward(m, shape) ==
    IF Len(shape) = 0 THEN Fail("RuntimeError", {})
    ELSE IF shape[Len(shape)] # m.in_features THEN Fail("RuntimeError", {})
    ELSE Ok([i \in 1..Len(shape) |-> IF i = Len(shape) THEN m.out_features ELSE shape[i]], {})

\* bidirectional, batch_first GRU: (B, T, input_size) -> (B, T, 2 * hidden_size)
GRU_forward(m, shape) ==
    IF Len(shape) # 3 THEN Fail("RuntimeError", {})
    ELSE IF shape[3] # m.input_size THEN Fail("RuntimeError", {})
    ELSE Ok(<<shape[1], shape[2], 2 * m.hidden_size>>, {})

Module_forward(m, shape) ==
    CASE m.kind = "Conv1d" -> Conv1d_forward(m, shape)
      [] m.kind = "BatchNorm1d" -> BatchNorm1d_forward(m, shape)
      [] m.kind = "MaxPool1d" -> MaxPool1d_forward(m, shape)
      [] m.kind = "ReLU" -> Ok(shape, {})

\* a result with further classes of this file recorded as invoked
WithMods(r, mods) == [r EXCEPT !.mods = @ \cup mods]

\* nn.Sequential over framework modules, continuing from the result r
RECURSIVE Sequential_forward(_, _)
Sequential_forward(ms, r) ==
    IF ms = <<>> \/ r.err # "none" THEN r
    ELSE Sequential_forward(Tail(ms), WithMods(Module_forward(Head(ms), r.shape), r.mods))

(* ------------------------ modules of this file ------------------------ *)
Attention(feature_dim, step_dim) ==
    [kind |-> "Attention", feature_dim |-> feature_dim, step_dim |-> step_dim,
     bias |-> TRUE]

\* weighted_input = x * unsqueeze(a, -1), a of the shape of eij; summed over dim 1
AttentionSum(shape, eij) ==
    IF ~Broadcastable(shape, eij \o <<1>>) THEN Fail("RuntimeError", {"Attention"})
    ELSE Ok(<<Broadcast(shape, eij \o <<1>>)[1]>> \o
            Tail(Tail(Broadcast(shape, eij \o <<1>>))), {"Attention"})

\* eij = mm(x.view(-1, feature_dim), weight).view(-1, step_dim) + b
Attention_forward(m, shape) ==
    IF Numel(shape) = 0 \/ Numel(shape) % m.feature_dim # 0
    THEN Fail("RuntimeError", {"Attention"})
    ELSE IF (Numel(shape) \div m.feature_dim) % m.step_dim # 0
    THEN Fail("RuntimeError", {"Attention"})
    ELSE AttentionSum(shape,
                      <<(Numel(shape) \div m.feature_dim) \div m.step_dim, m.step_dim>>)

HighwayMLP(input_size) ==
    [kind |-> "HighwayMLP", normal_layer |-> Linear(input_size, input_size),
     gate_layer |-> Linear(input_size, input_size)]

\* SEModule without its assertion
SEModule_NoAssert(channels, reduction) ==
    [kind |-> "SEModule",
     err |-> "none",
     fc1 |-> Conv1d(channels, channels \div reduction, 1, 1, 0, 1),
     fc2 |-> Conv1d(channels \div reduction, channels, 1, 1, 0, 1)]

\* the constructor's outcome is kept in err: the assertion is its first statement
SEModule(channels, reduction) ==
    [kind |-> "SEModule",
     err |-> IF channels > reduction THEN "none" ELSE "AssertionError",
     fc1 |-> Conv1d(channels, channels \div reduction, 1, 1, 0, 1),
     fc2 |-> Conv1d(channels \div reduction, channels, 1, 1, 0, 1)]

\* module_input * x, x the gate computed from the pooled input
SEScale(shape, gate) ==
    IF gate.err # "none" THEN Fail(gate.err, {"SEModule"})
    ELSE IF ~Broadcastable(shape, gate.shape) THEN Fail("RuntimeError", {"SEModule"})
    ELSE Ok(Broadcast(shape, gate.shape), {"SEModule"})

\* avg_pool to length 1, fc1, relu, fc2, sigmoid, then the product
SEModule_forward(m, shape) ==
    IF Len(shape) # 3 THEN Fail("RuntimeError", {"SEModule"})
    ELSE SEScale(shape, Sequential_forward(<<m.fc1, ReLU, m.fc2>>,
                                           Ok(<<shape[1], shape[2], 1>>, {})))

Expansion(block) == IF block = "SEResNetBlock" THEN 1 ELSE 4

\* a block's constructor builds its convolutions, then its SEModule
BlockErr(convs, se) ==
    IF \E i \in 1..Len(convs) : ~Conv1dCtorOk(convs[i]) THEN "ValueError" ELSE se.err

SEBottleneck(inplanes, planes, groups, reduction, stride, downsample) ==
    [kind |-> "SEBottleneck",
     conv1 |-> Conv1d(inplanes, planes * 2, 1, 1, 0, 1),
     bn1 |-> BatchNorm1d(planes * 2),
     conv2 |-> Conv1d(planes * 2, planes * 4, 3, stride, 1, groups),
     bn2 |-> BatchNorm1d(planes * 4),
     conv3 |-> Conv1d(planes * 4, planes * 4, 1, 1, 0, 1),
     bn3 |-> BatchNorm1d(planes * 4),
     se_module |-> SEModule(planes * 4, reduction),
     downsample |-> downsample, stride |-> stride]

SEResNetBottleneck(inplanes, planes, groups, reduction, stride, downsample) ==
    [kind |-> "SEResNetBottleneck",
     conv1 |-> Conv1d(inplanes, planes, 1, stride, 0, 1),
     bn1 |-> BatchNorm1d(planes),
     conv2 |-> Conv1d(planes, planes, 7, 1, 3, groups),
     bn2 |-> BatchNorm1d(planes),
     conv3 |-> Conv1d(planes, planes * 4, 1, 1, 0, 1),
     bn3 |-> BatchNorm1d(planes * 4),
     se_module |-> SEModule(planes * 4, reduction),
     downsample |-> downsample, stride |-> stride]

\* base_width = 4: width = floor(planes * (4 / 64)) * groups
ResNeXtWidth(planes, groups) == ((planes * 4) \div 64) * groups

SEResNeXtBottleneck(inplanes, planes, groups, reduction, stride, downsample) ==
    [kind |-> "SEResNeXtBottleneck",
     conv1 |-> Conv1d(inplanes, ResNeXtWidth(planes, groups), 1, 1, 0, 1),
     bn1 |-> BatchNorm1d(ResNeXtWidth(planes, groups)),
     conv2 |-> Conv1d(ResNeXtWidth(planes, groups), ResNeXtWidth(planes, groups),
                      7, stride, 3, groups),
     bn2 |-> BatchNorm1d(ResNeXtWidth(planes, groups)),
     conv3 |-> Conv1d(ResNeXtWidth(planes, groups), planes * 4, 1, 1, 0, 1),
     bn3 |-> BatchNorm1d(planes * 4),
     se_module |-> SEModule(planes * 4, reduction),
     downsample |-> downsample, stride |-> stride]

SEResNetBlock(inplanes, planes, groups, reduction, stride, downsample) ==
    [kind |-> "SEResNetBlock",
     conv1 |-> Conv1d(inplanes, planes, 7, stride, 3, 1),
     bn1 |-> BatchNorm1d(planes),
     conv2 |-> Conv1d(planes, planes, 7, 1, 3, groups),
     bn2 |-> BatchNorm1d(planes),
     se_module |-> SEModule(planes, reduction),
     downsample |-> downsample, stride |-> stride]

\* the error a block's constructor raised, "none" if it returned
BlockCtorErr(b) ==
    IF b.kind = "SEResNetBlock" THEN BlockErr(<<b.conv1, b.conv2>>, b.se_module)
    ELSE BlockErr(<<b.conv1, b.conv2, b.conv3>>, b.se_module)

\* residual = x, or downsample(x) when the block has a downsample
Residual(b, shape) ==
    IF b.downsample # None THEN Sequential_forward(b.downsample, Ok(shape, {}))
    ELSE Ok(shape, {})

\* se_module(out) + residual
AddResidual(b, se, residual) ==
    IF se.err # "none" THEN Fail(se.err, {b.kind} \cup se.mods)
    ELSE IF ~Broadcastable(se.shape, residual.shape)
    THEN Fail("RuntimeError", {b.kind} \cup se.mods)
    ELSE Ok(Broadcast(se.shape, residual.shape), {b.kind} \cup se.mods)

\* out is the main path's result, residual the skip path's
ResidualJoin(b, out, residual) ==
    IF out.err # "none" THEN Fail(out.err, {b.kind})
    ELSE IF residual.err # "none" THEN Fail(residual.err, {b.kind})
    ELSE AddResidual(b, SEModule_forward(b.se_module, out.shape), residual)

\* the statements of Bottleneck.forward before the SE module
Bottleneck_main(b) == <<b.conv1, b.bn1, ReLU, b.conv2, b.bn2, ReLU, b.conv3, b.bn3>>

\* the statements of SEResNetBlock.forward before the SE module
SEResNetBlock_main(b) == <<b.conv1, b.bn1, ReLU, b.conv2, b.bn2, ReLU>>

\* the block adding the residual to the main path with the SE gate left out
Bottleneck_forward_NoSE(b, shape) ==
    AddResidual(b, Sequential_forward(Bottleneck_main(b), Ok(shape, {})), Residual(b, shape))

Bottleneck_forward(b, shape) ==
    ResidualJoin(b, Sequential_forward(Bottleneck_main(b), Ok(shape, {})), Residual(b, shape))

SEResNetBlock_forward(b, shape) ==
    ResidualJoin(b, Sequential_forward(SEResNetBlock_main(b), Ok(shape, {})),
                 Residual(b, shape))

Block_forward(b, shape) ==
    IF b.kind = "SEResNetBlock" THEN SEResNetBlock_forward(b, shape)
    ELSE Bottleneck_forward(b, shape)

\* nn.Sequential over residual blocks (layer1 .. layer4), continuing from r
RECURSIVE Layer_forward(_, _)
Layer_forward(bs, r) ==
    IF bs = <<>> \/ r.err # "none" THEN r
    ELSE Layer_forward(Tail(bs), WithMods(Block_forward(Head(bs), r.shape), r.mods))

(* ------------------------------- SENet -------------------------------- *)
NewBlock(block, inplanes, planes, groups, reduction, stride, downsample) ==
    CASE block = "SEBottleneck" ->
           SEBottleneck(inplanes, planes, groups, reduction, stride, downsample)
      [] block = "SEResNetBottleneck" ->
           SEResNetBottleneck(inplanes, planes, groups, reduction, stride, downsample)
      [] block = "SEResNeXtBottleneck" ->
           SEResNeXtBottleneck(inplanes, planes, groups, reduction, stride, downsample)
      [] block = "SEResNetBlock" ->
           SEResNetBlock(inplanes, planes, groups, reduction, stride, downsample)

\* the first error raised while a sequence of constructors ran
FirstErr(errs) ==
    IF \A i \in 1..Len(errs) : errs[i] = "none" THEN "none"
    ELSE errs[CHOOSE i \in 1..Len(errs) :
                 errs[i] # "none" /\ \A j \in 1..(i - 1) : errs[j] = "none"]

\* the downsample of a layer's first block
\* a downsample created for a strided first block only
Downsample_StrideOnly(inplanes, out_planes, stride, downsample_kernel_size, downsample_padding) ==
    IF stride # 1
    THEN <<Conv1d(inplanes, out_planes, downsample_kernel_size, stride,
                  downsample_padding, 1), BatchNorm1d(out_planes)>>
    ELSE None

Downsample(inplanes, out_planes, stride, downsample_kernel_size, downsample_padding) ==
    IF stride # 1 \/ inplanes # out_planes
    THEN <<Conv1d(inplanes, out_planes, downsample_kernel_size, stride,
                  downsample_padding, 1),
           BatchNorm1d(out_planes)>>
    ELSE None

\* self after _make_layer: self.inplanes updated, the layer it returns in made
MadeLayer(self, inplanes, layers) ==
    [self EXCEPT !.inplanes = inplanes,
                 !.made = layers,
                 !.err = FirstErr(<<self.err>> \o
                                  [i \in 1..Len(layers) |-> BlockCtorErr(layers[i])])]

\* range(1, blocks) has max(blocks - 1, 0) elements
_make_layer(self, block, planes, blocks, groups, reduction, stride, downsample_kernel_size, downsample_padding) ==
    MadeLayer(self, planes * Expansion(block),
        <<NewBlock(block, self.inplanes, planes, groups, reduction, stride,
                   Downsample(self.inplanes, planes * Expansion(block), stride,
                              downsample_kernel_size, downsample_padding))>>
        \o [i \in 1..Max2(blocks - 1, 0) |->
               NewBlock(block, planes * Expansion(block), planes, groups, reduction, 1, None)])

\* self.<name> = self._make_layer(...)
SetLayer(self, name) == [self EXCEPT ![name] = self.made]

Layer0(in_chans, inplanes, input_3x3) ==
    (IF input_3x3
     THEN <<Conv1d(in_chans, 64, 3, 2, 1, 1), BatchNorm1d(64), ReLU,
            Conv1d(64, 64, 3, 1, 1, 1), BatchNorm1d(64), ReLU,
            Conv1d(64, inplanes, 3, 1, 1, 1), BatchNorm1d(inplanes), ReLU>>
     ELSE <<Conv1d(in_chans, inplanes, 7, 2, 3, 1), BatchNorm1d(inplanes), ReLU>>)
    \o <<MaxPool1d(3, 2)>>

\* the pooling selector of models/utils.py; feat_mult is 2 for the
\* concatenating pool and 1 otherwise
SelectAdaptivePool1d(pool_type) ==
    [kind |-> "SelectAdaptivePool1d", pool_type |-> pool_type]

feat_mult(pool) == IF pool.pool_type = "catavgmax" THEN 2 ELSE 1

\* SENet.__init__ up to layer0
SENetHead(drop_rate, in_chans, inplanes, input_3x3, num_classes) ==
    [err |-> "none", inplanes |-> inplanes, num_classes |-> num_classes,
     drop_rate |-> drop_rate, training |-> TRUE,
     layer0 |-> Layer0(in_chans, inplanes, input_3x3),
     layer1 |-> <<>>, layer2 |-> <<>>, layer3 |-> <<>>, layer4 |-> <<>>,
     made |-> <<>>]

\* SENet.__init__ after layer4
SENetTail(self, block, global_pool) ==
    [kind |-> "SENet",
     err |-> self.err,
     inplanes |-> self.inplanes,
     num_classes |-> self.num_classes,
     drop_rate |-> self.drop_rate,
     training |-> self.training,
     layer0 |-> self.layer0,
     layer1 |-> self.layer1, layer2 |-> self.layer2,
     layer3 |-> self.layer3, layer4 |-> self.layer4,
     avg_pool |-> SelectAdaptivePool1d(global_pool),
     num_features |-> 512 * Expansion(block),
     highway_number |-> HighwayNumber,
     highway_layers |-> [i \in 1..HighwayNumber |-> HighwayMLP(512 * Expansion(block))],
     last_linear |-> Linear(LastLinearIn, LastLinearOut),
     lstm |-> [kind |-> "LSTM", input_size |-> GruInputSize,
               hidden_size |-> GruHiddenSize],
     gru |-> GRU(GruInputSize, GruHiddenSize),
     attention_layer |-> Attention(GruHiddenSize * 2, AttentionStepDim)]

SENet(block, layers, groups, reduction, drop_rate, in_chans, inplanes, input_3x3, downsample_kernel_size, downsample_padding, num_classes, global_pool) ==
    SENetTail(
      SetLayer(_make_layer(
        SetLayer(_make_layer(
          SetLayer(_make_layer(
            SetLayer(_make_layer(
              SENetHead(drop_rate, in_chans, inplanes, input_3x3, num_classes),
              block, 64, layers[1], groups, reduction, 1, 1, 0), "layer1"),
            block, 128, layers[2], groups, reduction, 2,
            downsample_kernel_size, downsample_padding), "layer2"),
          block, 256, layers[3], groups, reduction, 2,
          downsample_kernel_size, downsample_padding), "layer3"),
        block, 512, layers[4], groups, reduction, 2,
        downsample_kernel_size, downsample_padding), "layer4"),
      block, global_pool)

get_classifier(self) == self.last_linear

\* reset_classifier sizing the classifier without the pool's feat_mult
reset_classifier_NoFeatMult(self, num_classes, global_pool) ==
    [self EXCEPT !.num_classes = num_classes,
                 !.avg_pool = SelectAdaptivePool1d(global_pool),
                 !.last_linear = IF num_classes # 0
                                 THEN Linear(self.num_features, num_classes)
                                 ELSE None]

reset_classifier(self, num_classes, global_pool) ==
    [self EXCEPT !.num_classes = num_classes,
                 !.avg_pool = SelectAdaptivePool1d(global_pool),
                 !.last_linear =
                     IF num_classes # 0
                     THEN Linear(self.num_features
                                   * feat_mult(SelectAdaptivePool1d(global_pool)),
                                 num_classes)
                     ELSE None]

(* ------------------------------ factories ----------------------------- *)
seresnet18(num_classes, in_chans, global_pool) ==
    SENet("SEResNetBlock", <<2, 2, 2, 2>>, 1, 16, DefaultDropRate, in_chans,
          64, FALSE, 1, 0, num_classes, global_pool)

seresnet34(num_classes, in_chans, global_pool) ==
    SENet("SEResNetBlock", <<3, 4, 6, 3>>, 1, 16, DefaultDropRate, in_chans,
          64, FALSE, 1, 0, num_classes, global_pool)

seresnet50(num_classes, in_chans, global_pool) ==
    SENet("SEResNetBottleneck", <<3, 4, 6, 3>>, 1, 16, DefaultDropRate, in_chans,
          64, FALSE, 1, 0, num_classes, global_pool)

seresnet101(num_classes, in_chans, global_pool) ==
    SENet("SEResNetBottleneck", <<3, 4, 23, 3>>, 1, 16, 50, in_chans,
          64, FALSE, 1, 0, num_classes, global_pool)

seresnet152(num_classes, in_chans, global_pool) ==
    SENet("SEResNetBottleneck", <<3, 8, 36, 3>>, 1, 16, 50, in_chans,
          64, FALSE, 1, 0, num_classes, global_pool)

senet154(num_classes, in_chans, global_pool) ==
    SENet("SEBottleneck", <<3, 8, 36, 3>>, 64, 16, DefaultDropRate, in_chans,
          DefaultInplanes, TRUE, 3, 1, num_classes, global_pool)

seresnext26_32x4d(num_classes, in_chans, global_pool) ==
    SENet("SEResNeXtBottleneck", <<2, 2, 2, 2>>, 32, 16, DefaultDropRate, in_chans,
          64, FALSE, 1, 0, num_classes, global_pool)

seresnext50_32x4d(num_classes, in_chans, global_pool) ==
    SENet("SEResNeXtBottleneck", <<3, 4, 6, 3>>, 32, 16, 50, in_chans,
          64, FALSE, 1, 0, num_classes, global_pool)

seresnext101_32x4d(num_classes, in_chans, global_pool) ==
    SENet("SEResNeXtBottleneck", <<3, 4, 23, 3>>, 32, 16, 50, in_chans,
          64, FALSE, 1, 0, num_classes, global_pool)

FactoryNames ==
    {"seresnet18", "seresnet34", "seresnet50", "seresnet101", "seresnet152",
     "senet154", "seresnext26_32x4d", "seresnext50_32x4d", "seresnext101_32x4d"}

\* the defaults of the factories' own parameters
FactoryNumClasses(fn) == IF fn = "senet154" THEN 1000 ELSE DefaultNumClasses
FactoryInChans(fn) == IF fn = "seresnet18" THEN 3 ELSE 12

Factory(fn, num_classes, in_chans, global_pool) ==
    CASE fn = "seresnet18" -> seresnet18(num_classes, in_chans, global_pool)
      [] fn = "seresnet34" -> seresnet34(num_classes, in_chans, global_pool)
      [] fn = "seresnet50" -> seresnet50(num_classes, in_chans, global_pool)
      [] fn = "seresnet101" -> seresnet101(num_classes, in_chans, global_pool)
      [] fn = "seresnet152" -> seresnet152(num_classes, in_chans, global_pool)
      [] fn = "senet154" -> senet154(num_classes, in_chans, global_pool)
      [] fn = "seresnext26_32x4d" -> seresnext26_32x4d(num_classes, in_chans, global_pool)
      [] fn = "seresnext50_32x4d" -> seresnext50_32x4d(num_classes, in_chans, global_pool)
      [] fn = "seresnext101_32x4d" -> seresnext101_32x4d(num_classes, in_chans, global_pool)

(* ---------------------------- forward pass ---------------------------- *)
\* the statements of forward_features and of logits, in program order
forward_features_stages == <<"layer0", "layer1", "layer2", "layer3", "layer4">>

\* logits with the attention layer applied before the recurrent layer
logits_stages_Swapped == <<"attention_layer", "gru", "last_linear">>

logits_stages == <<"gru", "attention_layer", "last_linear">>

Stage_forward(self, stage, shape) ==
    CASE stage = "layer0" -> Sequential_forward(self.layer0, Ok(shape, {}))
      [] stage = "layer1" -> Layer_forward(self.layer1, Ok(shape, {}))
      [] stage = "layer2" -> Layer_forward(self.layer2, Ok(shape, {}))
      [] stage = "layer3" -> Layer_forward(self.layer3, Ok(shape, {}))
      [] stage = "layer4" -> Layer_forward(self.layer4, Ok(shape, {}))
      [] stage = "gru" -> GRU_forward(self.gru, shape)
      [] stage = "attention_layer" -> Attention_forward(self.attention_layer, shape)
      [] stage = "last_linear" ->
           IF self.last_linear = None THEN Fail("TypeError", {})
           ELSE Linear_forward(self.last_linear, shape)

\* the only error raised by a statement of this file is SEModule's assertion
ErrorOrigin(type) == IF type = "AssertionError" THEN "repository" ELSE "framework"

NoError == [type |-> "none", origin |-> "none", at |-> "none"]
Raised(type, at) == [type |-> type, origin |-> ErrorOrigin(type), at |-> at]

(* ------------------------------- state -------------------------------- *)
VARIABLES
    phase,      \* "unbuilt", "failed" (constructor raised), "ready", "running",
                \* "returned", "raised" (the last forward call)
    call,       \* the constructing call: the factory or SENet and its arguments
    head,       \* the fields of the SENet object that reset_classifier assigns
    input,      \* shape of the argument of the current or last forward call
    x,          \* shape of the local x of forward
    trace,      \* stages the current or last forward call has invoked
    visited,    \* classes of this file whose forward the call has invoked
    error,      \* the error raised by the constructor or by the forward call
    lastReset,  \* arguments of the latest reset_classifier call
    lastOk,     \* an input on which forward returned since the latest reset
    prevOk,     \* lastOk as it was when reset_classifier was last called
    probe       \* the latest call of one residual block on its own, and its results

vars == <<phase, call, head, input, x, trace, visited, error, lastReset, lastOk, prevOk, probe>>

BlockNames == {"SEBottleneck", "SEResNetBottleneck", "SEResNeXtBottleneck", "SEResNetBlock"}
ReductionChoices == {16, 64}
PoolTypes == {"avg", "catavgmax"}
InputLengths == {FittingLength, SmokeLength}
NumClassesChoices(fn) == (1..MaxClasses) \cup {FactoryNumClasses(fn)}

\* the layers of a SENet never change after construction: the state keeps the
\* constructing call and the fields reset_classifier assigns, and Model is the
\* object they determine
ClassifierFields(self) ==
    [num_classes |-> self.num_classes, avg_pool |-> self.avg_pool,
     last_linear |-> self.last_linear]

Construct(c) ==
    IF c.fn = "SENet"
    THEN SENet(c.block, c.layers, c.groups, c.reduction, DefaultDropRate, c.in_chans,
               DefaultInplanes, TRUE, 3, 1, c.num_classes, c.global_pool)
    ELSE Factory(c.fn, c.num_classes, c.in_chans, c.global_pool)

Model ==
    [Construct(call) EXCEPT !.num_classes = head.num_classes,
                            !.avg_pool = head.avg_pool,
                            !.last_linear = head.last_linear]

Init ==
    /\ phase = "unbuilt"
    /\ call = [fn |-> "none"]
    /\ head = None
    /\ input = <<>>
    /\ x = <<>>
    /\ trace = <<>>
    /\ visited = {}
    /\ error = NoError
    /\ lastReset = None
    /\ lastOk = <<>>
    /\ prevOk = <<>>
    /\ probe = None

\* the outcome of a constructor call
Constructed(self) ==
    /\ IF self.err = "none"
       THEN phase' = "ready" /\ head' = ClassifierFields(self) /\ error' = NoError
       ELSE phase' = "failed" /\ head' = None /\ error' = Raised(self.err, "__init__")
    /\ UNCHANGED <<input, x, trace, visited, lastReset, lastOk, prevOk, probe>>

CallFactory ==
    /\ phase = "unbuilt"
    /\ \E fn \in FactoryNames : \E num_classes \in NumClassesChoices(fn) :
          /\ call' = [fn |-> fn, num_classes |-> num_classes,
                      in_chans |-> FactoryInChans(fn), global_pool |-> "max"]
          /\ Constructed(Construct(call'))

CallSENet ==
    /\ phase = "unbuilt"
    /\ \E block \in BlockNames, layers \in [1..4 -> 0..MaxBlocks],
          reduction \in ReductionChoices :
          /\ call' = [fn |-> "SENet", block |-> block, layers |-> layers,
                      groups |-> 1, reduction |-> reduction,
                      num_classes |-> DefaultNumClasses, in_chans |-> 12,
                      global_pool |-> "max"]
          /\ Constructed(Construct(call'))

ResetClassifier ==
    /\ phase \in {"ready", "returned", "raised"}
    /\ \E num_classes \in 0..MaxClasses, global_pool \in PoolTypes :
          /\ head' = ClassifierFields(reset_classifier(Model, num_classes, global_pool))
          /\ lastReset' = [num_classes |-> num_classes, global_pool |-> global_pool]
    /\ phase' = "ready"
    /\ prevOk' = lastOk
    /\ lastOk' = <<>>
    /\ input' = <<>> /\ x' = <<>> /\ trace' = <<>> /\ visited' = {}
    /\ error' = NoError
    /\ UNCHANGED <<call, probe>>

\* m(x): forward is entered with a batch of B signals of in_chans leads
Forward ==
    /\ phase \in {"ready", "returned", "raised"}
    /\ \E B \in 1..MaxBatch, L \in InputLengths :
          /\ input' = <<B, call.in_chans, L>>
          /\ x' = <<B, call.in_chans, L>>
    /\ phase' = "running"
    /\ trace' = <<>>
    /\ visited' = {}
    /\ error' = NoError
    /\ UNCHANGED <<call, head, lastReset, lastOk, prevOk, probe>>

\* one statement x = self.<stage>(x); the last statement of logits returns
StageStep(stage, last, r) ==
    /\ trace' = Append(trace, stage)
    /\ visited' = visited \cup r.mods
    /\ IF r.err # "none"
       THEN /\ phase' = "raised"
            /\ error' = Raised(r.err, stage)
            /\ x' = <<>>
            /\ UNCHANGED lastOk
       ELSE /\ x' = r.shape
            /\ UNCHANGED error
            /\ IF last
               THEN phase' = "returned" /\ lastOk' = input
               ELSE UNCHANGED <<phase, lastOk>>
    /\ UNCHANGED <<call, head, input, lastReset, prevOk, probe>>

ForwardFeaturesStep ==
    /\ phase = "running"
    /\ Len(trace) < Len(forward_features_stages)
    /\ StageStep(forward_features_stages[Len(trace) + 1], FALSE,
                 Stage_forward(Model, forward_features_stages[Len(trace) + 1], x))

\* the position in logits of the statement to execute
LogitsIndex == Len(trace) - Len(forward_features_stages) + 1

LogitsStep ==
    /\ phase = "running"
    /\ Len(trace) >= Len(forward_features_stages)
    /\ LogitsIndex <= Len(logits_stages)
    /\ StageStep(logits_stages[LogitsIndex], LogitsIndex = Len(logits_stages),
                 Stage_forward(Model, logits_stages[LogitsIndex], x))

Next ==
    \/ CallFactory
    \/ CallSENet
    \/ ResetClassifier
    \/ Forward
    \/ ForwardFeaturesStep
    \/ LogitsStep

Spec == Init /\ [][Next]_vars

(* ------------------- a residual block called on its own --------------- *)
Layers(self) == <<self.layer1, self.layer2, self.layer3, self.layer4>>
BlockLengths == 1..MaxLength

\* out = self.se_module(out), reached when the statements before it returned
SEGate(b, out) ==
    IF out.err # "none" THEN out
    ELSE WithMods(SEModule_forward(b.se_module, out.shape), out.mods)

\* the main path of a block: convolutions, batch norms and the SE module
Main_forward(b, shape) ==
    SEGate(b, Sequential_forward(IF b.kind = "SEResNetBlock" THEN SEResNetBlock_main(b)
                                 ELSE Bottleneck_main(b), Ok(shape, {})))

\* block i of layer k called on a tensor of the given shape
BlockProbe(k, i, b, shape) ==
    [layer |-> k, index |-> i, kind |-> b.kind, stride |-> b.stride,
     downsample |-> b.downsample # None, input |-> shape,
     main |-> Main_forward(b, shape), residual |-> Residual(b, shape),
     out |-> Block_forward(b, shape)]

BlockCallOn(layers) ==
    \E k \in 1..4 : \E i \in 1..Len(layers[k]) :
        \E B \in 1..MaxBatch, L \in BlockLengths :
            probe' = BlockProbe(k, i, layers[k][i],
                                <<B, layers[k][i].conv1.in_channels, L>>)

\* m.layer<k>[i](x) on a model a factory function built; a block keeps no
\* state between calls, so one call per constructed model is followed
BlockCall ==
    /\ phase = "ready"
    /\ probe = None
    /\ BlockCallOn(Layers(Model))
    /\ UNCHANGED <<phase, call, head, input, x, trace, visited, error, lastReset,
                   lastOk, prevOk>>

BlockNext ==
    \/ CallFactory
    \/ BlockCall

BlockSpec == Init /\ [][BlockNext]_vars

(* ------------------------------ properties ---------------------------- *)
Finished == phase \in {"returned", "raised"}
InCall == phase \in {"running", "returned", "raised"}
Built == phase \in {"ready", "running", "returned", "raised"}
ByFactory == call.fn \in FactoryNames
Range(seq) == {seq[i] : i \in 1..Len(seq)}
IsPrefix(s, t) == Len(s) <= Len(t) /\ \A i \in 1..Len(s) : s[i] = t[i]
CustomBlocks == {"SEModule", "CBAM_Module", "SCSEModule", "HighwayMLP", "Attention"}

\* C1: a forward pass of a model declared with num_classes = n returns a
\* tensor of shape (B, n), B the batch size of the input.
C1_OutputWidthIsNumClasses ==
    (phase = "returned" /\ lastReset = None) => x = <<input[1], call.num_classes>>

\* C2: the smoke test, seresnet50(global_pool='max') applied to an input of
\* shape (1, 12, 15360), runs through every stage and yields shape (1, 9).
C2_SmokeTestSucceeds ==
    (/\ call.fn = "seresnet50"
     /\ call.num_classes = DefaultNumClasses
     /\ call.global_pool = "max"
     /\ lastReset = None
     /\ Finished
     /\ input = <<1, 12, SmokeLength>>)
    => (phase = "returned" /\ x = <<1, 9>>)

\* C3: for every factory function the forward pass on an input of shape
\* (B, in_chans, 12800) completes and returns one score vector per batch element.
C3_EveryFactoryForwardCompletes ==
    (/\ ByFactory
     /\ lastReset = None
     /\ Finished
     /\ input = <<input[1], call.in_chans, 12800>>)
    => (phase = "returned" /\ Len(x) = 2 /\ x[1] = input[1])

\* C4 as stated: a forward pass of a factory-built model passes its data through
\* an instance of each of SEModule, CBAM_Module, SCSEModule, HighwayMLP, Attention.
C4_AllCustomBlocksWired ==
    (ByFactory /\ phase = "returned") => CustomBlocks \subseteq visited

\* C4 as amended: of the five building blocks a forward pass only ever passes
\* data through SEModule and Attention, and a pass that returns has passed it
\* through both; CBAM_Module and SCSEModule are not part of the model and the
\* HighwayMLP instances in highway_layers are constructed but never called.
C4_OnlySEAndAttentionWired ==
    /\ InCall => (visited \cap CustomBlocks) \subseteq {"SEModule", "Attention"}
    /\ phase = "returned" => {"SEModule", "Attention"} \subseteq visited
    /\ Built => /\ Len(Model.highway_layers) = HighwayNumber
                /\ \A i \in 1..Len(Model.highway_layers) :
                      Model.highway_layers[i].kind = "HighwayMLP"

C4_Witness ==
    /\ ByFactory
    /\ phase = "returned"
    /\ visited \cap CustomBlocks = {"SEModule", "Attention"}

\* C5: a forward call invokes its stages in the order layer0, layer1, layer2,
\* layer3, layer4, gru, attention_layer, last_linear: what a call has invoked so
\* far is always an initial part of this order (nothing skipped, repeated or
\* reordered), and a call that returns has invoked all eight, the classifier last.
C5_StageOrder ==
    LET order == <<"layer0", "layer1", "layer2", "layer3", "layer4",
                   "gru", "attention_layer", "last_linear">>
    IN /\ InCall => IsPrefix(trace, order)
       /\ phase = "running" => Len(trace) < Len(order)
       /\ phase = "returned" => trace = order

C5_Witness ==
    /\ phase = "returned"
    /\ Len(trace) = 8
    /\ trace[6] = "gru" /\ trace[7] = "attention_layer" /\ trace[8] = "last_linear"

\* C6 as stated: no error is ever raised by a check written in this repository.
C6_NoRepositoryError == error.origin # "repository"

\* C6 as amended: the one error raised by a check of this repository is the
\* AssertionError of SEModule.__init__, raised during construction exactly when
\* channels <= reduction (channels is 64 * expansion for the first block built);
\* every error of a forward pass is the framework's.
C6_OnlySEModuleAssertion ==
    /\ error.origin = "repository" =>
          /\ phase = "failed"
          /\ error.type = "AssertionError"
          /\ call.fn = "SENet"
          /\ 64 * Expansion(call.block) <= call.reduction
    /\ (/\ call.fn = "SENet"
        /\ call.groups = 1
        /\ 64 * Expansion(call.block) <= call.reduction)
       => (phase = "failed" /\ error.type = "AssertionError")
    /\ phase = "raised" => error.origin = "framework"

C6_Witness ==
    /\ phase = "failed"
    /\ error = [type |-> "AssertionError", origin |-> "repository", at |-> "__init__"]
    /\ call.block = "SEResNetBlock"
    /\ call.reduction = 64

\* C7: after reset_classifier(n, global_pool), however many calls came before,
\* num_classes is n; for n > 0 get_classifier() is a linear layer with
\* out_features n and in_features num_features * feat_mult of the selected pool,
\* num_features being 512 * block.expansion; for n = 0 it is None.
C7_ResetClassifierState ==
    (lastReset # None) =>
        /\ Model.num_classes = lastReset.num_classes
        /\ Model.avg_pool.pool_type = lastReset.global_pool
        /\ Model.num_features = 512 * Expansion(Model.layer1[1].kind)
        /\ lastReset.num_classes > 0 =>
              /\ get_classifier(Model).kind = "Linear"
              /\ get_classifier(Model).out_features = lastReset.num_classes
              /\ get_classifier(Model).in_features =
                     512 * Expansion(Model.layer1[1].kind) * feat_mult(Model.avg_pool)
        /\ lastReset.num_classes = 0 => get_classifier(Model) = None

C7_Witness ==
    /\ lastReset # None
    /\ lastReset.num_classes = 1
    /\ lastReset.global_pool = "catavgmax"
    /\ Model.layer1[1].kind = "SEResNetBottleneck"
    /\ get_classifier(Model) = Linear(4096, 1)

\* C8: after reset_classifier(n), n > 0, on a model whose forward pass worked,
\* the forward pass on the same input completes and returns shape (B, n).
C8_ForwardWorksAfterReset ==
    (/\ lastReset # None
     /\ lastReset.num_classes > 0
     /\ prevOk # <<>>
     /\ Finished
     /\ input = prevOk)
    => (phase = "returned" /\ x = <<input[1], lastReset.num_classes>>)

\* C9: a forward pass in training mode applies a dropout stage with the drop
\* rate given to SENet when that rate is positive, and none when it is 0.
C9_DropoutApplied ==
    phase = "returned" =>
        (("dropout" \in Range(trace)) <=> (Model.drop_rate > 0 /\ Model.training))

\* C10: layer k built by _make_layer has exactly layers[k-1] blocks, also for 0;
\* only the first block has the layer's stride and downsample.
C10_LayerLengths ==
    (call.fn = "SENet" /\ Built) =>
        \A k \in 1..4 :
            /\ Len(Layers(Model)[k]) = call.layers[k]
            /\ \A i \in 2..Len(Layers(Model)[k]) :
                  /\ Layers(Model)[k][i].stride = 1
                  /\ Layers(Model)[k][i].downsample = None

\* planes of layer1 .. layer4, and the shape both paths of a block give
LayerPlanes == <<64, 128, 256, 512>>
BlockOutShape(p) ==
    <<p.input[1], LayerPlanes[p.layer] * Expansion(p.kind),
      ((p.input[3] - 1) \div p.stride) + 1>>

\* what _make_layer did for layer k, read off the blocks it built
MakeLayerRule(layers, k, out_planes) ==
    /\ Len(layers[k]) >= 1
    /\ (layers[k][1].downsample = None)
          <=> (layers[k][1].stride = 1 /\ layers[k][1].conv1.in_channels = out_planes)
    /\ \A i \in 2..Len(layers[k]) : layers[k][i].conv1.in_channels = out_planes
    /\ k < 4 => layers[k + 1][1].conv1.in_channels = out_planes

\* the rule for each of the four layers, and self.inplanes after the last
MakeLayerRules(self, expansion) ==
    /\ \A k \in 1..4 : MakeLayerRule(Layers(self), k, LayerPlanes[k] * expansion)
    /\ self.inplanes = LayerPlanes[4] * expansion

\* C11: in a model built by a factory, for every residual block and every
\* input length L >= 1 the main path and the residual path give the same
\* channels and the same length, so the addition raises no shape mismatch
\* (a single value per channel stops the batch norms before the addition);
\* _make_layer leaves downsample absent exactly when stride = 1 and the running
\* inplanes equals planes * expansion, and sets inplanes to planes * expansion.
C11_ResidualShapesAgree ==
    /\ probe # None =>
          /\ "RuntimeError" \notin {probe.main.err, probe.residual.err, probe.out.err}
          /\ (probe.main.err = "none" /\ probe.residual.err = "none") =>
                /\ probe.main.shape = BlockOutShape(probe)
                /\ probe.residual.shape = BlockOutShape(probe)
                /\ probe.out = Ok(BlockOutShape(probe), {probe.kind, "SEModule"})
          /\ BlockOutShape(probe)[1] * BlockOutShape(probe)[3] > 1 => probe.out.err = "none"
    /\ (Built /\ ByFactory) =>
          MakeLayerRules(Model, IF call.fn \in {"seresnet18", "seresnet34"} THEN 1 ELSE 4)

\* a strided first block with a kernel-3 downsample, called on an odd length
C11_Witness ==
    /\ probe # None
    /\ probe.kind = "SEBottleneck" /\ probe.downsample /\ probe.stride = 2
    /\ probe.input[3] = 5
    /\ probe.out.err = "none" /\ probe.out.shape[3] = 3

====
